---- MODULE Spec2Model ----
(***************************************************************************)
(* A model of runlib/condor.py: the Jobs registry served by a Pyro4        *)
(* daemon in a child process (the broker), the Pool.map and                *)
(* Pool.imap_unordered orchestration loops, the CondorPool submission and  *)
(* the worker processes started by the batch scheduler.                    *)
(*                                                                         *)
(* The daemon runs with SERVERTYPE = "multiplex": one request is served at *)
(* a time, so every remote call on Jobs is one atomic step of the model.   *)
(* Job ids are 0-based as in the source; the element of a sequence that    *)
(* belongs to job id i is at position i+1.                                 *)
(***************************************************************************)
EXTENDS Integers, Sequences, FiniteSets, TLC

\* ------------------------------------------------------------------ bounds

\* Largest length of an input iterable.
MaxJobs == 2
\* Largest groupsize of the pool (jobs per scheduler task).
MaxGroup == 2
\* Largest nqueue of the pool.
MaxQueue == 1
\* How many times the scheduler may start a task again (SpecRerun only).
MaxReruns == 1
\* Largest number of jobs and largest ngroups of a submission (SpecGroups
\* only).
MaxTotal == 5
MaxNGroups == 3
\* Largest number of input files of a mapper call and number of distinct
\* output file names (SpecMapper only).
MaxFiles == 3
MaxNames == 2
\* Largest number of results fetched after the start and number of classes
\* of results that are neither int nor str (SpecCounter only).
MaxDrains == 2
MaxClasses == 2

\* Largest number of calls of map on one pool object (SpecReuse only).
MaxCalls == 2

\* ---------------------------------------------------------- Jobs constants

status_waiting == 0
status_sending == 1
status_running == 2
status_storing == 3
status_stored == 4
status_done == 5

\* Jobs.max_counter
max_counter == 20

\* The value submitted for a job whose function raised (an exception object).
Err == -1

\* --------------------------------------------------------- pure functions

\* range(n): the sequence 0, 1, ..., n-1
range(n) == [i \in 1..n |-> i - 1]

Min(a, b) == IF a <= b THEN a ELSE b

\* zip(*iterables): tuples up to the shortest iterable; zip() is empty
zip(its) ==
    IF Len(its) = 0 THEN << >>
    ELSE LET n == CHOOSE m \in 0..MaxJobs :
                     /\ \A k \in 1..Len(its) : m <= Len(its[k])
                     /\ \E k \in 1..Len(its) : m = Len(its[k])
         IN  [i \in 1..n |-> [k \in 1..Len(its) |-> its[k][i]]]

\* Chunks that leave out an incomplete last chunk.
chunks_full_only(l, n) ==
    [g \in 1..(Len(l) \div n) |-> SubSeq(l, (g - 1) * n + 1, g * n)]

\* chunks(l, n): successive n-sized chunks of l
chunks(l, n) ==
    [g \in 1..((Len(l) + n - 1) \div n) |->
        SubSeq(l, (g - 1) * n + 1, Min(g * n, Len(l)))]

\* A group size rounded down.
qsub_groupsize_floor(total, ngroups) == total \div ngroups

\* QsubPool.submit: int(ceil(jobs.total()/float(ngroups))), for ngroups > 0
qsub_groupsize(total, ngroups) == (total + ngroups - 1) \div ngroups

\* A group size rounded down, and at least 1.
condor_groupsize_floor(total, ngroups) ==
    IF total \div ngroups = 0 THEN 1 ELSE total \div ngroups

\* CondorPool.submit: int(jobs.total()/ngroups)+1; int() of the quotient of
\* two non-negative numbers is its floor
condor_groupsize(total, ngroups) == (total \div ngroups) + 1

\* worker, method Q: range(group_id*groupsize, (group_id+1)*groupsize)
\* without the ids that are not below njobs
qsub_job_ids(group_id, gsize, njobs) ==
    LET lo == Min(group_id * gsize, njobs)
        hi == Min((group_id + 1) * gsize, njobs)
    IN  [i \in 1..(hi - lo) |-> lo + i - 1]

\* A test that finds no file.
exists_never(files, path) == FALSE

\* Path.exists() in a file system that holds the paths of files
exists(files, path) == path \in files

\* mapper: dir_out/name and Path(tmpdir)/f_out.name; a path is a directory
\* and a name
in_dir(dir, name) == <<dir, name>>

\* mapper: the list_args of the loop over the inputs from input i on, with
\* if_exists='skip': the inputs whose output file exists are left out
RECURSIVE list_args_from(_, _, _)
list_args_from(list_output, files, i) ==
    IF i > Len(list_output) THEN << >>
    ELSE (IF exists(files, in_dir("dir_out", list_output[i]))
          THEN << >>
          ELSE << [f_in |-> i, f_out_tmp |-> in_dir("tmpdir", list_output[i])] >>)
         \o list_args_from(list_output, files, i + 1)

\* shutil.move(res, f_out)
move(files, res, f_out) == (files \ {res}) \cup {f_out}

\* counter[key] += 1, or counter[key] = 1 for a new key; a counter is a
\* function from its keys to their counts
incremented(counter, key) ==
    [k \in DOMAIN counter \cup {key} |->
        IF k # key THEN counter[k]
        ELSE IF key \in DOMAIN counter THEN counter[key] + 1 ELSE 1]

\* Jobs.getResult: the counter after the result v. A result is <<"int", n>>,
\* <<"str", n>> (the n-th string) or <<"obj", c>> (an object of the c-th
\* class); an int or str is counted under itself while the counter has less
\* than max_counter keys, any other object under its class
counted(counter, v) ==
    IF v[1] \in {"int", "str"}
    THEN IF Cardinality(DOMAIN counter) < max_counter
         THEN incremented(counter, v)
         ELSE counter
    ELSE incremented(counter, <<"class", v[2]>>)

\* The mapped function, in the manner of the test functions f(x) = x**2 and
\* g(x, y) = x**2 + y**2; it raises for x = 1, which the worker turns into an
\* exception object submitted as the result.
F(args) ==
    IF args[1] = 1 THEN Err
    ELSE IF Len(args) = 1 THEN args[1] * args[1]
    ELSE args[1] * args[1] + args[2] * args[2]

\* list.count
count(st, s) == Cardinality({i \in DOMAIN st : st[i] = s})

\* Jobs.nstored
nstored(st) == count(st, status_stored)

\* Jobs.nfetched
nfetched(st) == count(st, status_done)

\* A bisect that always answers 0 (results inserted at the front).
bisect_first(a, x) == 0

\* bisect.bisect (bisect_right) on a sorted list: the insertion index after
\* any entries equal to x
bisect(a, x) == Cardinality({i \in DOMAIN a : a[i] <= x})

\* An insert that appends.
insert_last(a, index, x) == Append(a, x)

\* list.insert(index, x)
insert(a, index, x) == SubSeq(a, 1, index) \o <<x>> \o SubSeq(a, index + 1, Len(a))

\* A getJob that marks the next job running as well.
getJob_with_next(st, job_id) ==
    [i \in DOMAIN st |->
        IF i \in {job_id + 1, job_id + 2} THEN status_running ELSE st[i]]

\* Jobs.getJob: the status the call leaves behind (sending, then running)
getJob_status(st, job_id) == [st EXCEPT ![job_id + 1] = status_running]

\* A putResult that ends on status_sending instead of status_stored.
putResult_sending(st, job_id) == [st EXCEPT ![job_id + 1] = status_sending]

\* A putResult that ends on status_storing instead of status_stored.
putResult_storing(st, job_id) == [st EXCEPT ![job_id + 1] = status_storing]

\* Jobs.putResult: the status the call leaves behind (storing, then stored)
putResult_status(st, job_id) == [st EXCEPT ![job_id + 1] = status_stored]

\* A putResult that does not look at the stopping flag.
putResult_always(st, out, stop, TUPLE) ==
    [status |-> putResult_status(st, TUPLE[1]), outputs |-> Append(out, TUPLE)]

\* Jobs.putResult(TUPLE) on the status list st and the queue out: nothing
\* when the registry is stopping, otherwise the pair is enqueued
putResult(st, out, stop, TUPLE) ==
    IF stop THEN [status |-> st, outputs |-> out]
    ELSE [status |-> putResult_status(st, TUPLE[1]), outputs |-> Append(out, TUPLE)]

\* A queue that hands out the item put last.
outputs_get_last(q) ==
    [item |-> q[Len(q)], rest |-> SubSeq(q, 1, Len(q) - 1)]

\* self.outputs.get() on a Queue that is not empty: the item put first, and
\* the queue without it
outputs_get(q) == [item |-> Head(q), rest |-> Tail(q)]

\* Jobs.getResult on the registry J = [status, outputs, results, job_ids]:
\* dequeue one (job_id, v) pair and mark the job done
getResult(J) ==
    [J EXCEPT !.outputs = outputs_get(J.outputs).rest,
              !.status = [J.status EXCEPT
                             ![outputs_get(J.outputs).item[1] + 1] = status_done]]

\* The body of the loop of Jobs.finished('map'): dequeue one result and
\* insert it in the results list at the place of its job id
dequeue_one(J) ==
    LET job_id == outputs_get(J.outputs).item[1]
        v == outputs_get(J.outputs).item[2]
        G == getResult(J)
        index == bisect(J.job_ids, job_id)
    IN  [G EXCEPT !.status = [G.status EXCEPT ![job_id + 1] = status_done],
                  !.job_ids = insert(J.job_ids, index, job_id),
                  !.results = insert(J.results, index, v)]

\* A loop that dequeues one result at most.
dequeue_once(J, n) == IF n = 0 THEN J ELSE dequeue_one(J)

\* for _ in range(n): dequeue one
RECURSIVE dequeue(_, _)
dequeue(J, n) == IF n = 0 THEN J ELSE dequeue(dequeue_one(J), n - 1)

\* A test that counts the stored jobs as well as the fetched ones.
all_stored_or_fetched(st) == nfetched(st) + nstored(st) = Len(st)

\* A test that is satisfied by one fetched job.
some_fetched(st) == nfetched(st) > 0

\* The answer of Jobs.finished: nfetched() == total()
all_fetched(st) == nfetched(st) = Len(st)

\* ------------------------------------------------------------------- state

VARIABLES
    mode,        \* "map" or "imap": which method of the pool is called
    iterables,   \* the iterables given to the call
    pool_nqueue, \* Pool.__nqueue, handed to Jobs
    groupsize,   \* CondorPool.__groupsize
    server,      \* Pool.__server: "none", "running", "terminated", or
                 \* "exited" when pyro_server has left with exit(1)
    inputs,      \* Jobs.inputs
    status,      \* Jobs.__status
    outputs,     \* Jobs.outputs, the queue of (job_id, value) pairs
    stopping,    \* Jobs.__stopping
    results,     \* Jobs.__results
    job_ids,     \* Jobs.__job_ids
    opc,         \* where the orchestrator is in map / imap_unordered
    ret,         \* the list map returns
    yielded,     \* the values imap_unordered has yielded so far
    outcome,     \* how the call ended: "none" while it runs, "returned",
                 \* or the name of the exception raised to the caller
    workers,     \* the worker processes of the submitted tasks
    reruns,      \* how many times the scheduler started a task again
    grouping,    \* the grouping of a submission on its own (SpecGroups):
                 \* total is jobs.total(), groupsize and ngroups the
                 \* attributes of the pool (ngroups 0 stands for None), at
                 \* where submit is, groups the job ids of the tasks
    mapping,     \* a call of mapper on its own (SpecMapper): list_output
                 \* the output names of the inputs 1, 2, ..., files the
                 \* paths that exist, existed those at the call, at where
                 \* mapper is, pending the arguments map_function has not yet
                 \* worked on, applied the inputs f was called with, calls
                 \* the number of calls of map_function, ret the list returned
    counting,    \* the result counter on its own (SpecCounter): counter is
                 \* Jobs.__counter, fetched the number of getResult calls so
                 \* far, steps those made since the start of the model
    email        \* Pool.__email is not None

vars == <<mode, iterables, pool_nqueue, groupsize, server, inputs, status,
          outputs, stopping, results, job_ids, opc, ret, yielded, outcome,
          workers, reruns, grouping, mapping, counting, email>>

config == <<mode, iterables, pool_nqueue, groupsize, grouping, mapping,
            counting, email>>
registry == <<inputs, status, outputs, stopping, results, job_ids>>

\* The inputs of the model: one range, as in pool.map(f, range(10)), or two
\* ranges, as in pool.map(g, range(5), range(5, 10)); either may be empty.
Iterables ==
    {<<range(n)>> : n \in 0..MaxJobs}
        \cup {<<range(n), range(m)>> : n \in 0..MaxJobs, m \in 0..MaxJobs}

NQueues == -1..MaxQueue

\* No result fetched
NoCounting == [counter |-> << >>, fetched |-> 0, steps |-> 0]

\* No call of mapper
NoMapping ==
    [list_output |-> << >>, if_exists |-> "skip", files |-> {}, existed |-> {},
     at |-> "none", list_out |-> << >>, pending |-> << >>, applied |-> << >>,
     calls |-> 0, ret |-> << >>]

\* A pool and the call of one of its methods; email is the constructor's
\* argument
Pool(address) ==
    /\ email = address
    /\ mode \in {"map", "imap"}
    /\ iterables \in Iterables
    /\ pool_nqueue \in NQueues
    /\ groupsize \in 1..MaxGroup
    /\ server = "none"
    /\ inputs = << >>
    /\ status = << >>
    /\ outputs = << >>
    /\ stopping = FALSE
    /\ results = << >>
    /\ job_ids = << >>
    /\ opc = "call"
    /\ ret = << >>
    /\ yielded = << >>
    /\ outcome = "none"
    /\ workers = << >>
    /\ reruns = 0
    /\ grouping = [total |-> 0, groupsize |-> groupsize, ngroups |-> 0,
                   at |-> "none", groups |-> << >>, given |-> 0, calls |-> 0]
    /\ mapping = NoMapping
    /\ counting = NoCounting

\* def __init__(self, progressbar=True, nqueue=-1, custom=[], email=None)
Init == Pool(FALSE)

\* Pool(email=...)
InitEmail == Pool(TRUE)

\* A pool of either kind, with any groupsize and ngroups, about to submit
\* any number of jobs.
InitGroups ==
    /\ mode = "map"
    /\ iterables = << << >> >>
    /\ pool_nqueue = -1
    /\ groupsize = 1
    /\ server = "none"
    /\ inputs = << >>
    /\ status = << >>
    /\ outputs = << >>
    /\ stopping = FALSE
    /\ results = << >>
    /\ job_ids = << >>
    /\ opc = "call"
    /\ ret = << >>
    /\ yielded = << >>
    /\ outcome = "none"
    /\ workers = << >>
    /\ reruns = 0
    /\ \E t \in 0..MaxTotal, g \in 1..MaxGroup, n \in 0..MaxNGroups :
          grouping = [total |-> t, groupsize |-> g, ngroups |-> n,
                      at |-> "submit", groups |-> << >>, given |-> n,
                      calls |-> 1]
    /\ mapping = NoMapping
    /\ counting = NoCounting
    /\ email = FALSE

idle == <<mode, iterables, pool_nqueue, groupsize, server, inputs, status,
          outputs, stopping, results, job_ids, opc, ret, yielded, outcome,
          workers, reruns, email>>

\* No call of a pool
NoPoolCall ==
    /\ mode = "map"
    /\ iterables = << << >> >>
    /\ pool_nqueue = -1
    /\ groupsize = 1
    /\ server = "none"
    /\ inputs = << >>
    /\ status = << >>
    /\ outputs = << >>
    /\ stopping = FALSE
    /\ results = << >>
    /\ job_ids = << >>
    /\ opc = "call"
    /\ ret = << >>
    /\ yielded = << >>
    /\ outcome = "none"
    /\ workers = << >>
    /\ reruns = 0
    /\ grouping = [total |-> 0, groupsize |-> 1, ngroups |-> 0,
                   at |-> "none", groups |-> << >>, given |-> 0, calls |-> 0]
    /\ email = FALSE

\* The sequences of at most n elements of S
SeqUpTo(S, n) == UNION {[1..k -> S] : k \in 0..n}

\* A call of mapper with any inputs and output names, some of the output
\* files in dir_out already, and if_exists 'skip' or 'error'.
InitMapper ==
    /\ NoPoolCall
    /\ \E lo \in SeqUpTo(1..MaxNames, MaxFiles),
          ex \in SUBSET {in_dir("dir_out", n) : n \in 1..MaxNames},
          ie \in {"skip", "error"} :
          mapping = [NoMapping EXCEPT !.list_output = lo, !.files = ex,
                                      !.existed = ex, !.if_exists = ie,
                                      !.at = "call"]
    /\ counting = NoCounting

\* The results a job may give
ResultValues ==
    {<<"int", n>> : n \in 0..max_counter}
    \cup {<<"str", 1>>}
    \cup {<<"obj", c>> : c \in 1..MaxClasses}

\* A registry after the results 0, 1, ..., k-1 were fetched, for any k up
\* to max_counter.
InitCounter ==
    /\ NoPoolCall
    /\ mapping = NoMapping
    /\ \E k \in 0..max_counter :
          counting = [counter |-> [key \in {<<"int", n>> : n \in 0..(k - 1)} |-> 1],
                      fetched |-> k, steps |-> 0]

\* Jobs.getResult: the result v is fetched and counted
GetResultCounts ==
    /\ counting.steps < MaxDrains
    /\ \E v \in ResultValues :
          counting' = [counter |-> counted(counting.counter, v),
                       fetched |-> counting.fetched + 1,
                       steps |-> counting.steps + 1]
    /\ UNCHANGED <<idle, grouping, mapping>>

\* mapper: the loop that makes list_out and list_args; with
\* if_exists='error' an output file that exists raises IOError
MapperBuild ==
    /\ mapping.at = "call"
    /\ mapping' =
          IF /\ mapping.if_exists = "error"
             /\ \E i \in DOMAIN mapping.list_output :
                   exists(mapping.files, in_dir("dir_out", mapping.list_output[i]))
          THEN [mapping EXCEPT !.at = "IOError"]
          ELSE [mapping EXCEPT
                   !.at = "built",
                   !.list_out = [i \in DOMAIN mapping.list_output |->
                                    in_dir("dir_out", mapping.list_output[i])],
                   !.pending = list_args_from(mapping.list_output,
                                              mapping.files, 1)]
    /\ UNCHANGED <<idle, grouping, counting>>

\* mapper: if list_args: map_function(check_f(f), *zip(*list_args))
MapperMap ==
    /\ mapping.at = "built"
    /\ mapping' = IF mapping.pending # << >>
                  THEN [mapping EXCEPT !.at = "mapping", !.calls = @ + 1]
                  ELSE [mapping EXCEPT !.at = "mapped"]
    /\ UNCHANGED <<idle, grouping, counting>>

\* mapper: one result of map_function, in the order of the arguments (map)
\* or in any order (imap_unordered): f has written its temporary file and
\* returned it, and the file is moved to dir_out
MapperItem ==
    /\ mapping.at = "mapping"
    /\ \E k \in DOMAIN mapping.pending :
          LET a == mapping.pending[k]
              res == a.f_out_tmp
              rest == [n \in 1..(Len(mapping.pending) - 1) |->
                          IF n < k THEN mapping.pending[n]
                                   ELSE mapping.pending[n + 1]]
          IN  mapping' = [mapping EXCEPT
                             !.applied = Append(@, a.f_in),
                             !.files = move(@ \cup {res}, res,
                                            in_dir("dir_out", res[2])),
                             !.pending = rest,
                             !.at = IF rest = << >> THEN "mapped" ELSE "mapping"]
    /\ UNCHANGED <<idle, grouping, counting>>

\* mapper: return list_out
MapperReturn ==
    /\ mapping.at = "mapped"
    /\ mapping' = [mapping EXCEPT !.at = "returned", !.ret = mapping.list_out]
    /\ UNCHANGED <<idle, grouping, counting>>

\* CondorPool.submit: adjust groupsize to ngroups
CondorAdjust ==
    /\ grouping.at \in {"submit", "condor_submit"}
    /\ grouping' = [grouping EXCEPT
                       !.at = "condor_adjusted",
                       !.groupsize =
                           IF grouping.ngroups # 0
                           THEN condor_groupsize(grouping.total, grouping.ngroups)
                           ELSE grouping.groupsize]
    /\ UNCHANGED <<idle, mapping, counting>>

\* CondorPool.submit: one task per grp in chunks(range(jobs.total()),
\* groupsize), with the job ids of grp as its arguments
CondorEmit ==
    /\ grouping.at = "condor_adjusted"
    /\ grouping' = [grouping EXCEPT
                       !.at = "condor_emitted",
                       !.groups = chunks(range(grouping.total), grouping.groupsize)]
    /\ UNCHANGED <<idle, mapping, counting>>

\* QsubPool.submit: ngroups defaults to jobs.total(); the group size is
\* ceil(total / ngroups), a ZeroDivisionError when both are 0
QsubAdjust ==
    /\ grouping.at \in {"submit", "qsub_submit"}
    /\ LET n == IF grouping.ngroups = 0 THEN grouping.total ELSE grouping.ngroups
       IN  grouping' =
               IF n = 0
               THEN [grouping EXCEPT !.at = "ZeroDivisionError"]
               ELSE [grouping EXCEPT
                        !.at = "qsub_adjusted",
                        !.ngroups = n,
                        !.groupsize = qsub_groupsize(grouping.total, n)]
    /\ UNCHANGED <<idle, mapping, counting>>

\* QsubPool.submit: the array of tasks 0..ngroups-1 (#PBS -t), each worker
\* computing its job ids from $PBS_ARRAYID, groupsize and njobs
QsubEmit ==
    /\ grouping.at = "qsub_adjusted"
    /\ grouping' = [grouping EXCEPT
                       !.at = "qsub_emitted",
                       !.groups = [i \in 1..grouping.ngroups |->
                                     qsub_job_ids(i - 1, grouping.groupsize,
                                                  grouping.total)]]
    /\ UNCHANGED <<idle, mapping, counting>>

\* A later call of map or imap_unordered on the same pool object, after a
\* submission that succeeded: submit(jobs, uri) with the jobs of the new
\* call; the attributes of the pool (self.__ngroups, self.__groupsize) are
\* those the previous call left.
Resubmit ==
    /\ grouping.at \in {"condor_emitted", "qsub_emitted"}
    /\ grouping.calls < MaxCalls
    /\ \E t \in 1..MaxTotal :
          grouping' = [grouping EXCEPT
                          !.total = t,
                          !.at = IF grouping.at = "qsub_emitted"
                                 THEN "qsub_submit" ELSE "condor_submit",
                          !.groups = << >>,
                          !.calls = @ + 1]
    /\ UNCHANGED <<idle, mapping, counting>>

\* A worker process as the scheduler starts it: worker(argv) with method C
\* and the job ids of its group.
NewWorker(grp) ==
    [job_ids |-> grp, k |-> 1, pc |-> "connect", args |-> << >>, result |-> 0]

\* -------------------------------------------------------------- orchestrator

\* Pool.map / Pool.imap_unordered: the test for an empty input
Call ==
    /\ opc = "call"
    /\ IF mode = "map"
       THEN IF Len(iterables) = 0 \/ Len(iterables[1]) = 0
            THEN /\ opc' = "end"
                 /\ outcome' = "returned"
            ELSE /\ opc' = "start"
                 /\ UNCHANGED outcome
       ELSE IF Len(iterables[1]) = 0
            THEN /\ opc' = "end"
                 /\ outcome' = "returned"
            ELSE /\ opc' = "start"
                 /\ UNCHANGED outcome
    /\ UNCHANGED <<config, server, registry, ret, yielded, workers, reruns>>

\* Pool._map_async: start the pyro daemon in a child process. pyro_server
\* either registers the jobs and puts its uri in uri_q, or finds the local ip
\* to be 127.0.0.1 and leaves with exit(1), nothing put in uri_q.
StartServer ==
    /\ opc = "start"
    /\ server' \in {"running", "exited"}
    /\ opc' = "uri"
    /\ UNCHANGED <<config, registry, ret, yielded, outcome, workers, reruns>>

\* Pool._map_async: uri = uri_q.get(), which blocks until the daemon has put
\* its uri
GetUri ==
    /\ opc = "uri"
    /\ server = "running"
    /\ opc' = "register"
    /\ UNCHANGED <<config, server, registry, ret, yielded, outcome, workers, reruns>>

\* Pool._map_async: for args in zip(*iterables): jobs.putJob(args)
PutJob ==
    /\ opc = "register"
    /\ Len(inputs) < Len(zip(iterables))
    /\ status' = Append(status, status_waiting)
    /\ inputs' = Append(inputs, zip(iterables)[Len(inputs) + 1])
    /\ UNCHANGED <<config, server, outputs, stopping, results, job_ids, opc,
                   ret, yielded, outcome, workers, reruns>>

\* A loop that is left after the first putJob.
first_registered(inp, its) == Len(inp) >= Min(1, Len(zip(its)))

\* Pool._map_async: the for loop over zip(*iterables) has ended
all_registered(inp, its) == Len(inp) = Len(zip(its))

\* CondorPool.submit, condor_submit succeeds: one task per chunk of job ids
SubmitOk ==
    /\ opc = "register"
    /\ all_registered(inputs, iterables)
    /\ workers' = [g \in 1..Len(chunks(range(Len(inputs)), groupsize)) |->
                      NewWorker(chunks(range(Len(inputs)), groupsize)[g])]
    /\ opc' = "submitted"
    /\ UNCHANGED <<config, server, registry, ret, yielded, outcome, reruns>>

\* A terminate_server that leaves the daemon running.
terminate_server_skipped == "running"

\* Pool.terminate_server: self.__server.terminate()
terminate_server == "terminated"

\* CondorPool.submit, condor_submit returns non-zero: terminate_server(),
\* then raise Exception
SubmitFails ==
    /\ opc = "register"
    /\ Len(inputs) = Len(zip(iterables))
    /\ server' = terminate_server
    /\ outcome' = "Exception"
    /\ opc' = "end"
    /\ UNCHANGED <<config, registry, ret, yielded, workers, reruns>>

\* A test that lets nqueue = 1 through.
nqueue_above_one(nq) == nq > 1

\* Pool.map: if jobs.nqueue() > 0: raise Exception
nqueue_refused(nq) == nq > 0

\* A map that stops the registry and terminates the daemon before it
\* refuses nqueue > 0.
AfterSubmit_terminating ==
    /\ opc = "submitted"
    /\ IF mode = "map" /\ nqueue_refused(pool_nqueue)
       THEN /\ outcome' = "Exception"
            /\ opc' = "end"
            /\ stopping' = TRUE
            /\ server' = "terminated"
       ELSE /\ opc' = "finished"
            /\ UNCHANGED <<outcome, stopping, server>>
    /\ UNCHANGED <<config, inputs, status, outputs, results, job_ids, ret,
                   yielded, workers, reruns>>

\* Back from _map_async: map refuses nqueue > 0, otherwise the loop is entered
AfterSubmit ==
    /\ opc = "submitted"
    /\ IF mode = "map" /\ nqueue_refused(pool_nqueue)
       THEN /\ outcome' = "Exception"
            /\ opc' = "end"
       ELSE /\ opc' = "finished"
            /\ UNCHANGED outcome
    /\ UNCHANGED <<config, server, registry, ret, yielded, workers, reruns>>

\* jobs.finished(mode), the test of the while loop
Finished ==
    /\ opc = "finished"
    /\ LET n == IF mode = "map" THEN nstored(status) ELSE 0
           J == [status |-> status, outputs |-> outputs,
                 results |-> results, job_ids |-> job_ids]
       IN  /\ Len(outputs) >= n      \* outputs.get() blocks on an empty queue
           /\ LET D == dequeue(J, n)
              IN  /\ status' = D.status
                  /\ outputs' = D.outputs
                  /\ results' = D.results
                  /\ job_ids' = D.job_ids
                  /\ opc' = IF all_fetched(D.status) THEN "post" ELSE "status"
    /\ UNCHANGED <<config, server, inputs, stopping, ret, yielded, outcome,
                   workers, reruns>>

\* jobs.status() and the update of the progress bar; map then sleeps
Status ==
    /\ opc = "status"
    /\ opc' = IF mode = "map" THEN "finished" ELSE "nstored"
    /\ UNCHANGED <<config, server, registry, ret, yielded, outcome, workers, reruns>>

\* imap_unordered: if jobs.nstored() > 0 ... else sleep(2)
NStored ==
    /\ opc = "nstored"
    /\ opc' = IF nstored(status) > 0 THEN "getResult" ELSE "finished"
    /\ UNCHANGED <<config, server, registry, ret, yielded, outcome, workers, reruns>>

\* imap_unordered: yield jobs.getResult()[1]
YieldResult ==
    /\ opc = "getResult"
    /\ Len(outputs) > 0
    /\ LET G == getResult([status |-> status, outputs |-> outputs,
                           results |-> results, job_ids |-> job_ids])
       IN  /\ status' = G.status
           /\ outputs' = G.outputs
    /\ yielded' = Append(yielded, outputs_get(outputs).item[2])
    /\ opc' = "yield"
    /\ UNCHANGED <<config, server, inputs, stopping, results, job_ids, ret,
                   outcome, workers, reruns>>

\* The consumer asks the generator for the next value
Resume ==
    /\ opc = "yield"
    /\ opc' = "finished"
    /\ UNCHANGED <<config, server, registry, ret, yielded, outcome, workers, reruns>>

\* After the loop: map fetches jobs.results() and prints the times (with the
\* progress bar on, totaltime() // total() divides by zero when no job was
\* registered); imap_unordered prints the times.
\* Whether the object's method can be called through the proxy: Pyro4
\* refuses a method without @Pyro4.expose when its REQUIRE_EXPOSE setting
\* is on, as it is unless the installation turns it off.
exposed == BOOLEAN

\* if self.__email is not None: count, _ = jobs.resultCounter(), then the
\* message and sendmail; jobs is the proxy of the registry
Notify ==
    /\ opc = "post"
    /\ mode = "map"
    /\ email
    /\ \E callable \in exposed :
          IF callable
          THEN /\ opc' = "results"
               /\ UNCHANGED outcome
          ELSE /\ outcome' = "AttributeError"
               /\ opc' = "end"
    /\ UNCHANGED <<config, server, registry, ret, yielded, workers, reruns>>

PostLoop ==
    /\ \/ opc = "results"
       \/ opc = "post" /\ ~(mode = "map" /\ email)
    /\ \E progressbar \in BOOLEAN :
          IF mode = "map" /\ progressbar /\ Len(inputs) = 0
          THEN /\ outcome' = "ZeroDivisionError"
               /\ opc' = "end"
               /\ UNCHANGED ret
          ELSE /\ ret' = IF mode = "map" THEN results ELSE ret
               /\ opc' = "terminate"
               /\ UNCHANGED outcome
    /\ UNCHANGED <<config, server, registry, yielded, workers, reruns>>

\* self.__server.terminate() and the return
TerminateAndReturn ==
    /\ opc = "terminate"
    /\ server' = "terminated"
    /\ outcome' = "returned"
    /\ opc' = "end"
    /\ UNCHANGED <<config, registry, ret, yielded, workers, reruns>>

\* The places of the polling loops that the try statements enclose
InTry == {"finished", "status", "nstored", "getResult"}

\* The places after the start of the daemon that no try statement encloses
\* ("yield": the generator is suspended and the interrupt is the consumer's)
OutsideTry ==
    {"uri", "register", "submitted", "post", "results", "terminate", "yield"}

\* A handler that terminates the daemon without calling jobs.stop().
handler_without_stop == "kill"

\* except KeyboardInterrupt: the handler starts with jobs.stop()
handler == "stop"

\* A keyboard interrupt inside the try statement: except KeyboardInterrupt
InterruptInLoop ==
    /\ opc \in InTry
    /\ opc' = handler
    /\ UNCHANGED <<config, server, registry, ret, yielded, outcome, workers, reruns>>

\* A keyboard interrupt elsewhere propagates to the caller
InterruptOutside ==
    /\ opc \in OutsideTry
    /\ outcome' = "KeyboardInterrupt"
    /\ opc' = "end"
    /\ UNCHANGED <<config, server, registry, ret, yielded, workers, reruns>>

\* A stop that also waits until no job is 'running'.
nothing_running(st) ==
    count(st, status_sending) + count(st, status_running) = 0

\* Jobs.stop: the test that ends its waiting loop (the source counts
\* status_sending twice, as nsending and as nstoring)
nothing_in_flight(st) ==
    count(st, status_sending) + count(st, status_sending) = 0

\* Jobs.stop, called by the handler: set the flag, then wait until nothing
\* is 'sending'
Stop ==
    /\ opc = "stop"
    /\ stopping' = TRUE
    /\ nothing_in_flight(status)
    /\ opc' = "kill"
    /\ UNCHANGED <<config, server, inputs, status, outputs, results, job_ids,
                   ret, yielded, outcome, workers, reruns>>

\* The handler: self.__server.terminate(), then raise
TerminateAndRaise ==
    /\ opc = "kill"
    /\ server' = "terminated"
    /\ outcome' = "KeyboardInterrupt"
    /\ opc' = "end"
    /\ UNCHANGED <<config, registry, ret, yielded, workers, reruns>>

\* ------------------------------------------------------------------ workers

\* The job id the worker w is at: job_ids[k]
JobOf(w) == workers[w].job_ids[workers[w].k]

\* worker(argv): connect to the daemon, read mod_name, function_str, custom
\* and cwd, import the module
Connect(w) ==
    /\ workers[w].pc = "connect"
    /\ server = "running"
    /\ workers' = [workers EXCEPT ![w].pc =
                      IF Len(workers[w].job_ids) = 0 THEN "exit0" ELSE "getJob"]
    /\ UNCHANGED <<config, server, registry, opc, ret, yielded, outcome, reruns>>

\* A getJob that hands out nothing once the registry is stopping.
GetJob_unless_stopping(w) ==
    /\ workers[w].pc = "getJob"
    /\ server = "running"
    /\ status' = IF stopping THEN status ELSE getJob_status(status, JobOf(w))
    /\ workers' = [workers EXCEPT
                      ![w].args = IF stopping THEN << >> ELSE inputs[JobOf(w) + 1],
                      ![w].pc = "wait"]
    /\ UNCHANGED <<config, server, inputs, outputs, stopping, results, job_ids,
                   opc, ret, yielded, outcome, reruns>>

\* worker: args = jobs.getJob(job_id)
GetJob(w) ==
    /\ workers[w].pc = "getJob"
    /\ server = "running"
    /\ status' = getJob_status(status, JobOf(w))
    /\ workers' = [workers EXCEPT ![w].args = inputs[JobOf(w) + 1],
                                  ![w].pc = "wait"]
    /\ UNCHANGED <<config, server, inputs, outputs, stopping, results, job_ids,
                   opc, ret, yielded, outcome, reruns>>

\* A test that leaves one place of the queue unused.
queue_has_room_but_one(st, nq) == nq <= 0 \/ nstored(st) < nq - 1

\* worker: the tests that break the waiting loop, jobs.nqueue() <= 0 and
\* jobs.nstored() < jobs.nqueue()
queue_has_room(st, nq) == nq <= 0 \/ nstored(st) < nq

\* worker: the loop that waits until the output queue has less than nqueue
\* values; the worker leaves it when nqueue <= 0 or nstored() < nqueue
Wait(w) ==
    /\ workers[w].pc = "wait"
    /\ server = "running"
    /\ queue_has_room(status, pool_nqueue)
    /\ workers' = [workers EXCEPT ![w].pc = "run"]
    /\ UNCHANGED <<config, server, registry, opc, ret, yielded, outcome, reruns>>

\* worker: result = f(*args), or the exception f raised
Run(w) ==
    /\ workers[w].pc = "run"
    /\ workers' = [workers EXCEPT ![w].result = F(workers[w].args),
                                  ![w].pc = "putResult"]
    /\ UNCHANGED <<config, server, registry, opc, ret, yielded, outcome, reruns>>

\* A worker that tries a job again when its function raised.
AfterPut_retry(wk) ==
    IF wk.result = Err
    THEN [wk EXCEPT !.pc = "getJob", !.args = << >>, !.result = 0]
    ELSE IF wk.k < Len(wk.job_ids)
         THEN [wk EXCEPT !.pc = "getJob", !.k = wk.k + 1, !.args = << >>,
                         !.result = 0]
         ELSE [wk EXCEPT !.pc = "exit0", !.args = << >>, !.result = 0]

\* worker: after putResult. An exception is raised again when the worker has
\* a single job id; otherwise the loop goes on to the next job id.
AfterPut(wk) ==
    IF wk.result = Err /\ Len(wk.job_ids) = 1
    THEN [wk EXCEPT !.pc = "exit1", !.args = << >>, !.result = 0]
    ELSE IF wk.k < Len(wk.job_ids)
         THEN [wk EXCEPT !.pc = "getJob", !.k = wk.k + 1, !.args = << >>, !.result = 0]
         ELSE [wk EXCEPT !.pc = "exit0", !.args = << >>, !.result = 0]

\* A worker that submits 0 in the place of the exception.
submitted_without_exception(job_id, result) ==
    <<job_id, IF result = Err THEN 0 ELSE result>>

\* worker: the tuple handed to putResult, (job_id, ex, time) when f raised
\* and (job_id, result, time) otherwise
submitted(job_id, result) == <<job_id, result>>

\* worker: jobs.putResult((job_id, result, time)); Jobs.putResult returns at
\* once when the registry is stopping
PutResult(w) ==
    /\ workers[w].pc = "putResult"
    /\ server = "running"
    /\ LET P == putResult(status, outputs, stopping,
                          submitted(JobOf(w), workers[w].result))
       IN  /\ status' = P.status
           /\ outputs' = P.outputs
    /\ workers' = [workers EXCEPT ![w] = AfterPut(workers[w])]
    /\ UNCHANGED <<config, server, inputs, stopping, results, job_ids, opc, ret,
                   yielded, outcome, reruns>>

\* worker of src/condor.py: after putResult the exception is appended to
\* exceptions, the loop goes on, and after the loop the first of the
\* exceptions is raised. exceptions is not empty exactly when the function
\* raised for one of the job ids of the worker.
AfterPutLegacy(wk) ==
    IF wk.k < Len(wk.job_ids)
    THEN [wk EXCEPT !.pc = "getJob", !.k = wk.k + 1, !.args = << >>, !.result = 0]
    ELSE IF \E n \in DOMAIN wk.job_ids : F(inputs[wk.job_ids[n] + 1]) = Err
         THEN [wk EXCEPT !.pc = "exit1", !.args = << >>, !.result = 0]
         ELSE [wk EXCEPT !.pc = "exit0", !.args = << >>, !.result = 0]

\* worker of src/condor.py: jobs.putResult((job_id, result, time))
PutResultLegacy(w) ==
    /\ workers[w].pc = "putResult"
    /\ server = "running"
    /\ LET P == putResult(status, outputs, stopping,
                          submitted(JobOf(w), workers[w].result))
       IN  /\ status' = P.status
           /\ outputs' = P.outputs
    /\ workers' = [workers EXCEPT ![w] = AfterPutLegacy(workers[w])]
    /\ UNCHANGED <<config, server, inputs, stopping, results, job_ids, opc, ret,
                   yielded, outcome, reruns>>

\* worker: jobs.getJob(job_id) raises AttributeError in the worker (the args
\* hold an object whose class the worker cannot resolve); Jobs.getJob has run
\* in the daemon
GetJobFails(w) ==
    /\ workers[w].pc = "getJob"
    /\ server = "running"
    /\ status' = getJob_status(status, JobOf(w))
    /\ workers' = [workers EXCEPT ![w].result = Err, ![w].pc = "putError"]
    /\ UNCHANGED <<config, server, inputs, outputs, stopping, results, job_ids,
                   opc, ret, yielded, outcome, reruns>>

\* worker: except AttributeError as ex: jobs.putResult((job_id, ex, time)),
\* then raise
PutError(w) ==
    /\ workers[w].pc = "putError"
    /\ server = "running"
    /\ LET P == putResult(status, outputs, stopping, <<JobOf(w), workers[w].result>>)
       IN  /\ status' = P.status
           /\ outputs' = P.outputs
    /\ workers' = [workers EXCEPT ![w].pc = "exit1", ![w].result = 0]
    /\ UNCHANGED <<config, server, inputs, stopping, results, job_ids, opc, ret,
                   yielded, outcome, reruns>>

\* A remote call of the worker after the daemon was terminated fails with a
\* communication error, which ends the worker
ConnectionLost(w) ==
    /\ workers[w].pc \in {"connect", "getJob", "wait", "putResult", "putError"}
    /\ server = "terminated"
    /\ workers' = [workers EXCEPT ![w].pc = "exit1", ![w].args = << >>,
                                  ![w].result = 0]
    /\ UNCHANGED <<config, server, registry, opc, ret, yielded, outcome, reruns>>

\* The scheduler starts a task again from its command line (HTCondor runs an
\* evicted job again): the worker process starts over with the same job ids
Rerun(w) ==
    /\ reruns < MaxReruns
    /\ server = "running"
    /\ workers[w].pc # "connect"
    /\ workers' = [workers EXCEPT ![w] = NewWorker(workers[w].job_ids)]
    /\ reruns' = reruns + 1
    /\ UNCHANGED <<config, server, registry, opc, ret, yielded, outcome>>

\* ---------------------------------------------------------- specifications

\* The statements of the orchestrator when no interrupt occurs
OrchestratorNormal ==
    \/ Call
    \/ StartServer
    \/ GetUri
    \/ PutJob
    \/ SubmitOk
    \/ SubmitFails
    \/ AfterSubmit
    \/ Finished
    \/ Status
    \/ NStored
    \/ YieldResult
    \/ Resume
    \/ PostLoop
    \/ TerminateAndReturn

\* The statements of the orchestrator
OrchestratorRuns ==
    \/ OrchestratorNormal
    \/ Stop
    \/ TerminateAndRaise

Orchestrator ==
    \/ OrchestratorRuns
    \/ InterruptInLoop
    \/ InterruptOutside

Worker(w) ==
    \/ Connect(w)
    \/ GetJob(w)
    \/ Wait(w)
    \/ Run(w)
    \/ PutResult(w)
    \/ ConnectionLost(w)

Next ==
    \/ Orchestrator
    \/ \E w \in DOMAIN workers : Worker(w)

\* Every task runs once: each job id is handed to exactly one worker.
Spec == Init /\ [][Next]_vars

NextEmail ==
    \/ Next
    \/ Notify

\* The pool was given an e-mail address.
SpecEmail == InitEmail /\ [][NextEmail]_vars

NextRerun ==
    \/ Next
    \/ \E w \in DOMAIN workers : Rerun(w)

\* The scheduler may start tasks again.
SpecRerun == Init /\ [][NextRerun]_vars

WorkerLegacy(w) ==
    \/ Connect(w)
    \/ GetJob(w)
    \/ Wait(w)
    \/ Run(w)
    \/ PutResultLegacy(w)
    \/ ConnectionLost(w)

NextLegacy ==
    \/ Orchestrator
    \/ \E w \in DOMAIN workers : WorkerLegacy(w)

\* The tasks run the worker of the module src/condor.py.
SpecLegacy == Init /\ [][NextLegacy]_vars

NextRun ==
    \/ OrchestratorNormal
    \/ \E w \in DOMAIN workers : Worker(w)

\* No interrupt occurs, the orchestrator (and the consumer of the generator)
\* goes on, and every worker process eventually takes each of its steps.
SpecRun ==
    /\ Init
    /\ [][NextRun]_vars
    /\ WF_vars(OrchestratorNormal)
    /\ \A w \in 1..MaxJobs : WF_vars(w \in DOMAIN workers /\ Worker(w))

NextCounter == GetResultCounts

\* The result counter, from every number of distinct results already
\* counted.
SpecCounter == InitCounter /\ [][NextCounter]_vars

NextMapper ==
    \/ MapperBuild
    \/ MapperMap
    \/ MapperItem
    \/ MapperReturn

\* The calls of mapper, for every list of inputs and content of dir_out.
SpecMapper == InitMapper /\ [][NextMapper]_vars

NextGroups ==
    \/ CondorAdjust
    \/ CondorEmit
    \/ QsubAdjust
    \/ QsubEmit

\* The grouping of the jobs into tasks, for every size of the submission.
SpecGroups == InitGroups /\ [][NextGroups]_vars

NextReuse ==
    \/ NextGroups
    \/ Resubmit

\* The pool object is used for more than one call.
SpecReuse == InitGroups /\ [][NextReuse]_vars

NextFetchFails ==
    \/ Next
    \/ \E w \in DOMAIN workers : GetJobFails(w)
    \/ \E w \in DOMAIN workers : PutError(w)

\* The args of a job may be unreadable for the worker.
SpecFetchFails == Init /\ [][NextFetchFails]_vars

\* The orchestrator process keeps running once it is in its interrupt
\* handler: the stop call is served by the request loop of the daemon and the
\* terminate and raise statements follow. Nothing is assumed of the workers.
SpecCancel == Spec /\ WF_vars(Stop) /\ WF_vars(TerminateAndRaise)

\* ------------------------------------------------------------------ claims

\* What the call is expected to produce: f applied to each zipped tuple.
Expected == [i \in 1..Len(zip(iterables)) |-> F(zip(iterables)[i])]

\* The values of a sequence
Values(q) == {q[i] : i \in DOMAIN q}

\* The worker w makes its getJob call in this step.
FetchStep(w) == workers[w].pc = "getJob" /\ workers'[w].pc = "wait"

\* The worker w makes its putResult call in this step.
SubmitStep(w) ==
    /\ workers[w].pc = "putResult"
    /\ workers'[w].pc # "putResult"
    /\ server = "running"

\* C1: when every job id is handed to exactly one worker, no step of the
\* workers or of the orchestrator moves the status of a job id backwards
\* along waiting < sending < running < storing < stored < done.
C1_StatusMonotone ==
    [][\A i \in DOMAIN status : status'[i] >= status[i]]_vars

\* C1 witness: a job is done while a worker that has finished an earlier job
\* id is about to fetch its next one.
C1_Witness ==
    /\ \E i \in DOMAIN status : status[i] = status_done
    /\ \E w \in DOMAIN workers : workers[w].pc = "getJob" /\ workers[w].k > 1

\* C2: a getJob call on a job id whose status is not waiting fails: the
\* status list is left as it was and the worker receives no args.
C2_FetchFailsUnlessWaiting ==
    [][\A w \in DOMAIN workers :
          (FetchStep(w) /\ status[JobOf(w) + 1] # status_waiting)
          => (status' = status /\ workers'[w].args = << >>)]_vars

\* C3: when map returns, the list it returns has one element per registered
\* job and element i is f applied to the i-th zipped tuple.
C3_MapResult ==
    (mode = "map" /\ outcome = "returned") => ret = Expected

\* C3 witness: map has returned the results of several workers.
C3_Witness ==
    /\ mode = "map"
    /\ outcome = "returned"
    /\ Len(ret) > 1
    /\ Len(workers) > 1

\* C4: when imap_unordered ends, it has yielded one value per registered job
\* and the yielded values are, as a multiset, those map returns.
C4_ImapYieldsAll ==
    (mode = "imap" /\ outcome = "returned") =>
        /\ Len(yielded) = Len(Expected)
        /\ \A v \in Values(yielded) \cup Values(Expected) :
              count(yielded, v) = count(Expected, v)

\* C4 witness: imap_unordered has ended after yielding several values in an
\* order that is not the order of the inputs.
C4_Witness ==
    /\ mode = "imap"
    /\ outcome = "returned"
    /\ Len(yielded) > 1
    /\ yielded # Expected

\* C5: with nqueue > 0 the number of jobs whose status is stored never
\* exceeds nqueue.
C5_StoredBounded ==
    pool_nqueue > 0 => nstored(status) <= pool_nqueue

\* C6: once the registry is stopping, a putResult call changes neither the
\* status list nor the queue nor the results, and the job id of the dropped
\* result stays running.
C6_PutAfterStopNoOp ==
    [][\A w \in DOMAIN workers :
          (stopping /\ SubmitStep(w))
          => /\ status' = status
             /\ outputs' = outputs
             /\ results' = results
             /\ job_ids' = job_ids
             /\ status'[JobOf(w) + 1] = status_running]_vars

\* C6 witness: a worker has left through putResult while the registry was
\* stopping, and its last job id is still running.
C6_Witness ==
    /\ stopping
    /\ \E w \in DOMAIN workers :
          /\ workers[w].pc = "exit0"
          /\ status[workers[w].job_ids[Len(workers[w].job_ids)] + 1] = status_running

\* C7: when the zipped input is empty, no daemon is started and nothing is
\* submitted, map returns an empty list and imap_unordered yields nothing.
C7_EmptyInput ==
    Len(zip(iterables)) = 0 =>
        /\ server = "none"
        /\ opc \in {"call", "start", "end"}
        /\ opc = "end" => (outcome = "returned" /\ ret = << >> /\ yielded = << >>)

\* C8 as stated: map on a pool with nqueue > 0 never returns a list.
C8_MapRefusesNqueue ==
    (mode = "map" /\ pool_nqueue > 0) => outcome # "returned"

\* C8 amended: map called with a non-empty first iterable on a pool with
\* nqueue > 0 never enters the polling loop, never returns a list and ends by
\* raising to the caller.
C8_MapRefusesNqueueNonEmpty ==
    (mode = "map" /\ pool_nqueue > 0 /\ Len(iterables) > 0 /\ Len(iterables[1]) > 0)
    => /\ outcome # "returned"
       /\ opc \notin InTry \cup {"post", "terminate"}
       /\ opc = "end" => outcome \in {"Exception", "KeyboardInterrupt"}

\* C8 witness: map has raised its exception after a successful submission.
C8_Witness ==
    /\ mode = "map"
    /\ pool_nqueue > 0
    /\ Len(workers) > 0
    /\ opc = "end"
    /\ outcome = "Exception"

\* C9: a keyboard interrupt inside the polling loop is followed by jobs.stop(),
\* then by the termination of the daemon, then by the interrupt raised to the
\* caller, in this order; no list is returned.
C9_InterruptProtocol ==
    [][/\ (opc \in InTry /\ opc' \notin InTry \cup {"post", "yield"})
          => (opc' = "stop" /\ ~stopping' /\ server' = "running" /\ outcome' = "none")
       /\ (opc = "stop" /\ opc' # "stop")
          => (opc' = "kill" /\ stopping' /\ server' = "running" /\ outcome' = "none")
       /\ (opc = "kill" /\ opc' # "kill")
          => /\ opc' = "end"
             /\ stopping
             /\ server' = "terminated"
             /\ outcome' = "KeyboardInterrupt"
             /\ ret' = << >>
       /\ opc = "end" => (opc' = "end" /\ outcome' = outcome)]_vars

\* C9 witness: the call was interrupted in the middle of a run and has gone
\* through stop and terminate.
C9_Witness ==
    /\ opc = "end"
    /\ outcome = "KeyboardInterrupt"
    /\ stopping
    /\ server = "terminated"
    /\ \E i \in DOMAIN status : status[i] = status_running

\* C10: when a call that started the daemon ends, by a return or by a
\* keyboard interrupt, the daemon has been terminated.
C10_BrokerTerminatedAtExit ==
    (opc = "end" /\ outcome \in {"returned", "KeyboardInterrupt"} /\ server # "none")
    => server # "running"

\* C11: once the interrupt handler is entered, whatever the workers do, stop
\* returns, and then the daemon is terminated and the interrupt reaches the
\* caller.
C11_CancelTerminates ==
    /\ (opc = "stop") ~> (opc = "kill" /\ stopping)
    /\ (opc = "kill") ~> (opc = "end" /\ server = "terminated"
                                     /\ outcome = "KeyboardInterrupt")

\* C11 witness: the interrupt has reached the caller while one worker was
\* about to submit and another was about to fetch.
C11_Witness ==
    /\ opc = "end"
    /\ outcome = "KeyboardInterrupt"
    /\ server = "terminated"
    /\ \E w \in DOMAIN workers : workers[w].pc = "putResult"
    /\ \E w \in DOMAIN workers : workers[w].pc = "getJob"

\* The call goes from _map_async to its end with an Exception in this step:
\* the submission has failed.
SubmitFailsStep == opc = "register" /\ opc' = "end" /\ outcome' = "Exception"

\* C12: when the submit command fails, the daemon is terminated and an
\* exception reaches the caller; the polling loop is not entered and nothing
\* is returned or yielded.
C12_SubmitFailure ==
    [][/\ SubmitFailsStep
          => (server' = "terminated" /\ ret' = << >> /\ yielded' = << >>)
       /\ (opc = "end" /\ outcome = "Exception")
          => (opc' = "end" /\ outcome' = "Exception" /\ ret' = << >>)]_vars

\* C12 witness: the call has ended with an exception and a terminated daemon
\* after all jobs were registered.
C12_Witness ==
    /\ opc = "end"
    /\ outcome = "Exception"
    /\ server = "terminated"
    /\ Len(inputs) > 1
    /\ workers = << >>

\* C13: when the daemon process has left because it found only the loopback
\* address, the call has ended with an error or the orchestrator can take
\* its next statement: it is not blocked.
C13_LoopbackSurfaced ==
    server = "exited" =>
        \/ opc = "end" /\ outcome \notin {"none", "returned"}
        \/ ENABLED OrchestratorRuns

\* The job ids whose function raises
Raising == {i \in DOMAIN inputs : F(inputs[i]) = Err}

\* C14: the exception of a raising job is its result: it is in the queue
\* while the job is stored, and when map returns the list has one element
\* per job, the exception at the place of the raising job, the job is done
\* and the other elements are the values of their jobs.
C14_ExceptionIsResult ==
    \A i \in Raising :
        /\ status[i] = status_stored
           => \E n \in DOMAIN outputs : outputs[n] = <<i - 1, Err>>
        /\ (mode = "map" /\ outcome = "returned")
           => /\ Len(ret) = Len(inputs)
              /\ ret[i] = Err
              /\ status[i] = status_done
              /\ \A j \in DOMAIN inputs \ Raising : ret[j] = F(inputs[j])

\* C14 witness: map has returned a list that holds an exception and a value.
C14_Witness ==
    /\ mode = "map"
    /\ outcome = "returned"
    /\ \E i \in DOMAIN ret : ret[i] = Err
    /\ \E j \in DOMAIN ret : ret[j] # Err

\* C15: after its putResult call a worker with a single job id exits
\* non-zero exactly when its function raised; a worker with several job ids
\* goes on to its next job id and exits 0 after the last one, whatever
\* raised. While the daemon runs a worker exits non-zero only from putResult.
C15_ExitCodes ==
    [][\A w \in DOMAIN workers :
          /\ SubmitStep(w) =>
                IF Len(workers[w].job_ids) = 1
                THEN workers'[w].pc =
                        (IF workers[w].result = Err THEN "exit1" ELSE "exit0")
                ELSE IF workers[w].k < Len(workers[w].job_ids)
                     THEN /\ workers'[w].pc = "getJob"
                          /\ workers'[w].k = workers[w].k + 1
                     ELSE workers'[w].pc = "exit0"
          /\ (workers[w].pc # "exit1" /\ workers'[w].pc = "exit1"
                                      /\ server = "running")
             => /\ workers[w].pc = "putResult"
                /\ ~stopping => /\ status'[JobOf(w) + 1] = status_stored
                                /\ outputs' = Append(outputs, <<JobOf(w), Err>>)]_vars

\* C16: after the putResult call that reports a failed getJob, the error is
\* stored, and the worker exits non-zero if it has a single job id and goes
\* on to its next job id otherwise.
C16_FetchFailureGoesOn ==
    [][\A w \in DOMAIN workers :
          (workers[w].pc = "putError" /\ workers'[w].pc # "putError"
                                      /\ server = "running")
          => /\ ~stopping => status'[JobOf(w) + 1] = status_stored
             /\ IF Len(workers[w].job_ids) = 1
                THEN workers'[w].pc = "exit1"
                ELSE IF workers[w].k < Len(workers[w].job_ids)
                     THEN /\ workers'[w].pc = "getJob"
                          /\ workers'[w].k = workers[w].k + 1
                     ELSE workers'[w].pc = "exit0"]_vars

\* The job ids of all groups, one after the other
RECURSIVE Flatten(_)
Flatten(gs) == IF gs = << >> THEN << >> ELSE Head(gs) \o Flatten(Tail(gs))

\* C17: for at least one job, the tasks CondorPool writes have non-empty
\* lists of consecutive job ids, no longer than the group size, and the
\* lists one after the other are 0..N-1: every job id is in exactly one.
C17_ChunksPartition ==
    (grouping.at = "condor_emitted" /\ grouping.total >= 1)
    => /\ \A g \in DOMAIN grouping.groups :
             /\ Len(grouping.groups[g]) \in 1..grouping.groupsize
             /\ \A i \in 2..Len(grouping.groups[g]) :
                    grouping.groups[g][i] = grouping.groups[g][i - 1] + 1
       /\ Flatten(grouping.groups) = range(grouping.total)

\* C17 witness: a submission whose last group is shorter than the others.
C17_Witness ==
    /\ grouping.at = "condor_emitted"
    /\ Len(grouping.groups) >= 2
    /\ Len(grouping.groups[1]) >= 2
    /\ Len(grouping.groups[Len(grouping.groups)]) < Len(grouping.groups[1])

\* C18: when ngroups is set, the group size CondorPool uses for at least one
\* job is the quotient total / ngroups rounded up.
C18_GroupSizeIsCeil ==
    (grouping.at = "condor_adjusted" /\ grouping.ngroups # 0
                                     /\ grouping.total >= 1)
    => \E q \in 0..grouping.total :
          /\ grouping.groupsize = q
          /\ q * grouping.ngroups >= grouping.total
          /\ (q - 1) * grouping.ngroups < grouping.total

\* C19: for at least one job, the job id lists of the array tasks
\* 0..ngroups-1 of QsubPool are pairwise disjoint and their union is 0..N-1.
C19_ArrayTasksPartition ==
    (grouping.at = "qsub_emitted" /\ grouping.total >= 1)
    => /\ Len(grouping.groups) = grouping.ngroups
       /\ \A g, h \in DOMAIN grouping.groups :
             g # h => {grouping.groups[g][i] : i \in DOMAIN grouping.groups[g]}
                      \cap {grouping.groups[h][i] : i \in DOMAIN grouping.groups[h]}
                      = {}
       /\ UNION {{grouping.groups[g][i] : i \in DOMAIN grouping.groups[g]} :
                     g \in DOMAIN grouping.groups}
          = 0..(grouping.total - 1)

\* C19 witness: array tasks of which one has fewer job ids than the group
\* size and another has the full group size.
C19_Witness ==
    /\ grouping.at = "qsub_emitted"
    /\ grouping.groupsize >= 2
    /\ \E g \in DOMAIN grouping.groups :
          Len(grouping.groups[g]) < grouping.groupsize
    /\ \E g \in DOMAIN grouping.groups :
          Len(grouping.groups[g]) = grouping.groupsize

\* C20: the queue of results changes only by a record put at its end or by
\* records taken from its front; the records taken reach the caller in the
\* order they were put: imap_unordered yields the value of the first record,
\* and map files the first records under their job ids.
C20_DrainIsFifo ==
    [][outputs' # outputs =>
          \/ /\ Len(outputs') = Len(outputs) + 1
             /\ SubSeq(outputs', 1, Len(outputs)) = outputs
          \/ \E n \in 1..Len(outputs) :
                /\ outputs' = SubSeq(outputs, n + 1, Len(outputs))
                /\ mode = "imap"
                   => /\ n = 1
                      /\ yielded' = Append(yielded, outputs[1][2])
                /\ mode = "map"
                   => {job_ids'[i] : i \in DOMAIN job_ids'}
                      = {job_ids[i] : i \in DOMAIN job_ids}
                        \cup {outputs[i][1] : i \in 1..n}]_vars

\* C20 witness: the result of job 1 was put before the result of job 0, and
\* imap_unordered has yielded it while the result of job 0 is in the queue.
C20_Witness ==
    /\ mode = "imap"
    /\ yielded = <<Err>>
    /\ outputs = << <<0, F(inputs[1])>> >>

\* C21: with nqueue disabled, once map is in its loop it eventually returns
\* with every job id done; a job id that is done stays done and has no
\* further record in the queue, so it became done exactly once.
C21_MapReturns ==
    /\ (mode = "map" /\ pool_nqueue <= 0 /\ opc = "finished")
       ~> (opc = "end" /\ outcome = "returned"
                      /\ \A i \in DOMAIN status : status[i] = status_done)
    /\ [][\A i \in DOMAIN status :
             status[i] = status_done
             => /\ status'[i] = status_done
                /\ \A n \in DOMAIN outputs' : outputs'[n][1] # i - 1]_vars

\* C22: with nqueue > 0, once imap_unordered is in its loop every job id
\* eventually is done: the workers waiting for room in the queue and the
\* orchestrator taking results out of it do not block each other for ever.
C22_QueueLimitProgress ==
    (mode = "imap" /\ pool_nqueue > 0 /\ opc = "finished")
    ~> (\A i \in DOMAIN status : status[i] = status_done)

\* C22 witness: a worker waits because the queue is full, its own job still
\* to run, while imap_unordered is about to take a result out.
C22_Witness ==
    /\ mode = "imap"
    /\ pool_nqueue > 0
    /\ opc = "getResult"
    /\ \E w \in DOMAIN workers :
          /\ workers[w].pc = "wait"
          /\ ~queue_has_room(status, pool_nqueue)

\* The places of the polling loops, the suspended generator included
InLoop == InTry \cup {"yield"}

\* C23: while the worker of a job id has not reached the daemon, the job id
\* stays waiting, finished does not answer true, the call does not return,
\* and the loop is left only by a KeyboardInterrupt.
C23_LostWorkerBlocks ==
    [][\A w \in DOMAIN workers :
          (workers[w].pc = "connect" /\ workers'[w].pc = "connect")
          => /\ \A n \in DOMAIN workers[w].job_ids :
                   status'[workers[w].job_ids[n] + 1] = status_waiting
             /\ ~all_fetched(status')
             /\ opc' \notin {"post", "terminate"}
             /\ outcome' # "returned"
             /\ (opc \in InLoop /\ opc' \notin InLoop)
                => \/ opc' = "stop"
                   \/ opc' = "end" /\ outcome' = "KeyboardInterrupt"]_vars

\* C23 witness: the loop polls again after one job is done while the worker
\* of the other job has not reached the daemon.
C23_Witness ==
    /\ opc = "status"
    /\ \E i \in DOMAIN status : status[i] = status_done
    /\ \E w \in DOMAIN workers : workers[w].pc = "connect"

C25_MapperSkip ==
    (mapping.at = "returned" /\ mapping.if_exists = "skip")
    => /\ \A i \in DOMAIN mapping.list_output :
             Cardinality({k \in DOMAIN mapping.applied : mapping.applied[k] = i})
             = (IF <<"dir_out", mapping.list_output[i]>> \in mapping.existed
                THEN 0 ELSE 1)
       /\ \A k \in DOMAIN mapping.applied :
             mapping.applied[k] \in DOMAIN mapping.list_output
       /\ (\A i \in DOMAIN mapping.list_output :
               <<"dir_out", mapping.list_output[i]>> \in mapping.existed)
          => mapping.calls = 0
       /\ mapping.calls <= 1
       /\ mapping.ret = [i \in DOMAIN mapping.list_output |->
                            <<"dir_out", mapping.list_output[i]>>]

\* C25 witness: mapper has returned after skipping one input and applying f
\* to another.
C25_Witness ==
    /\ mapping.at = "returned"
    /\ mapping.if_exists = "skip"
    /\ Len(mapping.applied) >= 1
    /\ Len(mapping.applied) < Len(mapping.ret)

C26_ResultsKeyedById ==
    /\ Len(results) = Len(job_ids)
    /\ \A k \in DOMAIN job_ids :
          /\ k > 1 => job_ids[k - 1] < job_ids[k]
          /\ (job_ids[k] + 1) \in DOMAIN inputs
          /\ results[k] = submitted(job_ids[k], F(inputs[job_ids[k] + 1]))[2]

\* C26 witness: finished('map') has recorded job 1 while job 0 is not yet
\* stored.
C26_Witness ==
    /\ mode = "map"
    /\ opc = "status"
    /\ job_ids = <<1>>
    /\ results = <<Err>>
    /\ status[1] = status_running

\* C27: finished answers true exactly when every registered job id is done
\* as the call ends: the loop is left (or the generator ends) only then.
C27_FinishedIffAllDone ==
    [][(opc = "finished" /\ opc' \in {"post", "status"})
       => (opc' = "post") = (\A i \in DOMAIN status' : status'[i] = status_done)]_vars

\* C27 witness: finished has answered true for two jobs.
C27_Witness ==
    /\ opc = "post"
    /\ Len(status) = 2
    /\ \A i \in DOMAIN status : status[i] = status_done

\* C28: a call of finished('map') makes every stored job id done, with its
\* value in the results list, leaves the other statuses as they are, and
\* ends with no job id stored and the queue empty; a call of
\* finished('imap') changes neither the statuses, nor the queue, nor the
\* results.
C28_FinishedFrame ==
    [][(opc = "finished" /\ opc' \in {"post", "status"})
       => IF mode = "map"
          THEN /\ \A i \in DOMAIN status :
                     IF status[i] = status_stored
                     THEN /\ status'[i] = status_done
                          /\ \E n \in DOMAIN outputs, k \in DOMAIN job_ids' :
                                /\ outputs[n][1] = i - 1
                                /\ job_ids'[k] = i - 1
                                /\ results'[k] = outputs[n][2]
                     ELSE status'[i] = status[i]
               /\ nstored(status') = 0
               /\ outputs' = << >>
          ELSE /\ status' = status
               /\ outputs' = outputs
               /\ results' = results
               /\ job_ids' = job_ids]_vars

\* C28 witness: map is out of its loop with the results of two jobs, of
\* which one is an exception, and an empty queue.
C28_Witness ==
    /\ mode = "map"
    /\ opc = "post"
    /\ outputs = << >>
    /\ Len(results) = 2
    /\ results[2] = Err

\* C29: the number of stored job ids plus the number of done job ids is the
\* number of job ids whose status is storing, stored or done.
C29_StoredPlusDone ==
    nstored(status) + nfetched(status)
    = Cardinality({i \in DOMAIN status : status[i] > status_running})

\* C29 witness: one job id is stored, another is done.
C29_Witness ==
    /\ \E i \in DOMAIN status : status[i] = status_stored
    /\ \E i \in DOMAIN status : status[i] = status_done

\* C30: when stop returns, the stopping flag is set and no job id is
\* sending or storing.
C30_StopReturnsQuiet ==
    [][(opc = "stop" /\ opc' # "stop")
       => /\ stopping'
          /\ \A i \in DOMAIN status' :
                status'[i] \notin {status_sending, status_storing}]_vars

\* C30 witness: stop has returned after a worker stored a result and while
\* another worker holds a job.
C30_Witness ==
    /\ opc = "kill"
    /\ stopping
    /\ \E i \in DOMAIN status : status[i] = status_stored
    /\ \E i \in DOMAIN status : status[i] = status_running

\* C31: when the tasks are submitted every zipped tuple is registered, in
\* order, job i at place i+1 with a status of its own; a worker fetches the
\* args of a registered job only, and the number of jobs does not change
\* once a job was fetched.
C31_RegisteredBeforeFetch ==
    [][/\ workers' # << >>
          => /\ inputs' = zip(iterables)
             /\ Len(status') = Len(inputs')
       /\ \A w \in DOMAIN workers :
             FetchStep(w)
             => /\ inputs = zip(iterables)
                /\ JobOf(w) \in 0..(Len(inputs) - 1)
                /\ workers'[w].args = zip(iterables)[JobOf(w) + 1]
       /\ (\E i \in DOMAIN status : status[i] # status_waiting)
          => /\ Len(inputs') = Len(inputs)
             /\ Len(status') = Len(status)]_vars

\* C31 witness: the second of two jobs zipped from two iterables was
\* fetched.
C31_Witness ==
    /\ Len(iterables) = 2
    /\ Len(inputs) = 2
    /\ \E w \in DOMAIN workers :
          workers[w].pc = "wait" /\ workers[w].args = <<1, 1>>

\* C32: the result counter never has more than max_counter keys.
C32_CounterCapped ==
    Cardinality(DOMAIN counting.counter) <= max_counter

\* The sum of the counts of a counter
RECURSIVE Total(_)
Total(counter) ==
    IF DOMAIN counter = {} THEN 0
    ELSE LET key == CHOOSE k \in DOMAIN counter : TRUE
         IN  counter[key]
             + Total([k \in DOMAIN counter \ {key} |-> counter[k]])

\* C33: the counts of the result counter sum to the number of results
\* fetched.
C33_EveryResultCounted ==
    Total(counting.counter) = counting.fetched

\* C34: with an e-mail address configured, map, once all jobs are done,
\* obtains the result counter from the registry and sends the notification
\* (it goes on to the storing of the results), and when it returns, it
\* returns the result vector with the daemon terminated.
C34_NotifiedThenReturned ==
    [][/\ (/\ email /\ mode = "map" /\ Len(inputs) >= 1
           /\ opc = "post" /\ opc' # "post"
           /\ outcome' # "KeyboardInterrupt")
          => opc' = "results"
       /\ (email /\ mode = "map" /\ Len(inputs) >= 1 /\ outcome' = "returned")
          => (server' = "terminated" /\ ret' = results)]_vars

\* C35: with ngroups set, CondorPool.submit emits at most ngroups tasks, for
\* every number of jobs N >= 1 and every ngroups >= 1.
C35_AtMostNGroups ==
    (/\ grouping.at = "condor_emitted"
     /\ grouping.ngroups >= 1
     /\ grouping.total >= 1)
        => Len(grouping.groups) <= grouping.ngroups

\* 5 jobs with ngroups = 2: groups of 3, two tasks
C35_Witness ==
    /\ grouping.at = "condor_emitted"
    /\ grouping.ngroups = 2
    /\ grouping.total = 5
    /\ grouping.groups = <<range(3), <<3, 4>> >>

\* C36: a QsubPool built with ngroups=None uses one group per job on every
\* call: the array of tasks has the indices 0..N-1 and the group size is
\* 1, also when the pool object is used again for a call with another N.
C36_OneGroupPerJob ==
    (/\ grouping.at = "qsub_emitted"
     /\ grouping.given = 0
     /\ grouping.total >= 1)
        => /\ grouping.ngroups = grouping.total
           /\ grouping.groupsize = 1
           /\ grouping.groups = [i \in 1..grouping.total |-> <<i - 1>>]

\* C37: when each job id is handed to exactly one worker, the result queue
\* holds, between two requests, as many records as there are job ids with
\* the status stored, and the records are those of the stored ids; so every
\* getResult that follows nstored() finds a record to take.
C37_RecordsMatchStored ==
    /\ Len(outputs) = nstored(status)
    /\ \A k \in DOMAIN outputs : status[outputs[k][1] + 1] = status_stored

\* One result has been drained and another one is in the queue
C37_Witness ==
    /\ Len(outputs) = 1
    /\ \E i \in DOMAIN status : status[i] = status_done
    /\ \E i \in DOMAIN status : status[i] = status_stored

\* The job ids of a worker that have the status running
RunningOf(w) ==
    {n \in DOMAIN workers[w].job_ids :
        status[workers[w].job_ids[n] + 1] = status_running}

\* C38: a worker handles its job ids in order and fetches the next one only
\* after the submit of the previous one has returned. As long as stop() has
\* not been called, the ids before the current one are submitted (stored or
\* done), those after it are waiting, the current one is running exactly
\* between its fetch and its submit; so at most one id per worker is
\* running and no more ids are running than there are tasks.
C38_OneRunningPerWorker ==
    ~stopping =>
        /\ \A w \in DOMAIN workers :
              /\ Cardinality(RunningOf(w)) <= 1
              /\ \A n \in DOMAIN workers[w].job_ids :
                    LET st == status[workers[w].job_ids[n] + 1]
                    IN  /\ n < workers[w].k => st \in {status_stored, status_done}
                        /\ n > workers[w].k => st = status_waiting
                        /\ n = workers[w].k =>
                              (st = status_running) =
                                  (workers[w].pc \in {"wait", "run", "putResult"})
        /\ count(status, status_running) <= Len(workers)

\* A worker with two job ids runs the second one, the first one submitted
C38_Witness ==
    /\ ~stopping
    /\ \E w \in DOMAIN workers :
          /\ Len(workers[w].job_ids) = 2
          /\ workers[w].k = 2
          /\ workers[w].pc = "run"
          /\ RunningOf(w) = {2}

\* C39: stop() does not disable the fetch: once the stopping flag is set, a
\* getJob of a waiting job id still makes it running and returns its
\* arguments.
C39_FetchAfterStop ==
    [][\A w \in DOMAIN workers :
          (/\ FetchStep(w)
           /\ stopping
           /\ status[JobOf(w) + 1] = status_waiting)
              => /\ status'[JobOf(w) + 1] = status_running
                 /\ workers'[w].args = inputs[JobOf(w) + 1]]_vars

\* stop() has returned and the daemon is not yet terminated; a worker whose
\* submit of its first job was dropped by the stopping registry (the job is
\* still running) has fetched its second job since
C39_Witness ==
    /\ stopping
    /\ opc = "kill"
    /\ server = "running"
    /\ \E w \in DOMAIN workers :
          /\ workers[w].k = 2
          /\ workers[w].pc = "wait"
          /\ status[workers[w].job_ids[1] + 1] = status_running
          /\ status[JobOf(w) + 1] = status_running
          /\ workers[w].args = inputs[JobOf(w) + 1]

\* C40: map refuses nqueue > 0 only after the daemon has been started, the
\* jobs registered and the submission made; it raises without calling
\* stop() and without terminating the daemon, which stays as it is after
\* the exception, so that the workers can still fetch and run their jobs.
C40_RefusalAfterSubmission ==
    [][/\ (/\ mode = "map" /\ nqueue_refused(pool_nqueue)
           /\ outcome = "none" /\ outcome' = "Exception"
           /\ ~SubmitFailsStep)
          => /\ opc = "submitted"
             /\ server = "running" /\ server' = "running"
             /\ inputs = zip(iterables)
             /\ Len(workers) = Len(chunks(range(Len(inputs)), groupsize))
             /\ ~stopping /\ ~stopping'
       /\ (outcome = "Exception" /\ server = "running")
          => (server' = "running" /\ ~stopping')
       /\ \A w \in DOMAIN workers :
             (outcome = "Exception" /\ FetchStep(w))
                => /\ status'[JobOf(w) + 1] = status_running
                   /\ workers'[w].args = inputs[JobOf(w) + 1]]_vars

\* map has raised and the daemon is alive, not stopping: one job is stored
\* and a worker runs the other one
C40_Witness ==
    /\ mode = "map"
    /\ pool_nqueue > 0
    /\ outcome = "Exception"
    /\ server = "running"
    /\ ~stopping
    /\ Len(status) = 2
    /\ \E i \in DOMAIN status : status[i] = status_stored
    /\ \E w \in DOMAIN workers : workers[w].pc = "run"
====
